---- MODULE Spec2Model ----
(***************************************************************************)
(* A model of kmeans.py: the command-line front end (argument parsing,     *)
(* reading and validating the vectors) and the k-means loop (first-k       *)
(* initialisation, nearest-centroid assignment, mean update, convergence   *)
(* test, output).                                                          *)
(*                                                                         *)
(* Numbers.  Command-line arguments are sequences of one-character         *)
(* strings, so that int() is modelled by what it accepts.  Coordinates of  *)
(* the input are decimals with a common denominator Unit (1 for rows of    *)
(* integers, 1000 for rows written with three decimals) and are held as    *)
(* integers in units of 1/Unit.  A centroid coordinate is a mean of at     *)
(* most N of them, so centroids are held as integers in units of           *)
(* 1/(Scale * Unit) with Scale = N!.  Distances are                        *)
(* compared through their squares, which orders them as their square roots *)
(* do.  Floating-point rounding is outside the model.  Floating-point      *)
(* range is kept, scaled down: `(a - b) ** 2` raises OverflowError when     *)
(* |a - b| exceeds the square root of the largest float (about 1.3e154);   *)
(* in the model that threshold is SqrtFloatMax, and HugeCoord is a finite  *)
(* literal above it, such as 1e200.                                        *)
(***************************************************************************)
EXTENDS Integers, Sequences, FiniteSets, TLC

\* ---------------------------------------------------------------- bounds
MaxN == 4        \* generated one-coordinate inputs have 1..MaxN vectors
MaxCoord == 2    \* with coordinates 0..MaxCoord
\* the largest magnitude whose square is a finite float, in model units
SqrtFloatMax == 1000

\* ------------------------------------------------------ program constants
MIN_K == 1
MIN_ITER == 1
MAX_ITER == 1000
DEFAULT_ITER == 400
\* eps=0.001 as the fraction EPS_NUM / EPS_DEN
EPS_NUM == 1
EPS_DEN == 1000

GENERIC_MSG == "An Error Has Occurred"
INVALID_K_MSG == "Invalid number of clusters!"
INVALID_ITER_MSG == "Invalid maximum iteration!"

\* --------------------------------------------------------------- helpers
Digits == {"0", "1", "2", "3", "4", "5", "6", "7", "8", "9"}

DigitValue(c) ==
    CASE c = "0" -> 0 [] c = "1" -> 1 [] c = "2" -> 2 [] c = "3" -> 3
      [] c = "4" -> 4 [] c = "5" -> 5 [] c = "6" -> 6 [] c = "7" -> 7
      [] c = "8" -> 8 [] c = "9" -> 9

\* the part of an argument after an optional sign
Unsigned(s) == IF s # <<>> /\ s[1] \in {"+", "-"} THEN Tail(s) ELSE s

\* int(s) succeeds: an optional sign followed by one or more digits.
\* Anything else ("3.0", "2.5", "65,536", "bug", "") raises ValueError.
IsIntLiteral(s) ==
    /\ Unsigned(s) # <<>>
    /\ \A i \in 1..Len(Unsigned(s)) : Unsigned(s)[i] \in Digits

RECURSIVE DigitsValue(_)
DigitsValue(s) ==
    IF s = <<>> THEN 0
    ELSE 10 * DigitsValue(SubSeq(s, 1, Len(s) - 1)) + DigitValue(s[Len(s)])

\* the value int(s) returns when it succeeds
IntValue(s) ==
    IF s[1] = "-" THEN 0 - DigitsValue(Unsigned(s)) ELSE DigitsValue(Unsigned(s))

RECURSIVE Fact(_)
Fact(n) == IF n <= 1 THEN 1 ELSE n * Fact(n - 1)

\* ------------------------------------------------------------ input data
Num(x) == [num |-> TRUE, val |-> x]
BadToken == [num |-> FALSE, val |-> 0]

\* the line of text that holds vector v
LineOf(v) == [i \in 1..Len(v) |-> Num(v[i])]
LinesOf(vs) == [i \in 1..Len(vs) |-> LineOf(vs[i])]

\* den: the common denominator of the decimals of the rows
Readable(lines) == [readable |-> TRUE, lines |-> lines, den |-> 1]
Unreadable == [readable |-> FALSE, lines |-> <<>>, den |-> 1]
\* rows written with three decimals: the token 0.002 has val 2
Thousandths(vs) == [readable |-> TRUE, lines |-> LinesOf(vs), den |-> 1000]

\* the tester's DUMMY_INPUT
DummyVectors == << <<1, 2, 3>>, <<4, 5, 6>>, <<7, 8, 9>>, <<1, 2, 3>> >>
\* needs three iterations with k = 2
SlowVectors == << <<0>>, <<1>>, <<2>>, <<10>> >>
\* a finite coordinate whose square is not a float, such as 1e200
HugeCoord == 10 * SqrtFloatMax
HugeVectors == << <<HugeCoord>>, <<0>>, <<5>> >>
\* 0.000, 1.000, 0.002: with k = 2 the first centroid moves by exactly 0.001
EpsVectors == << <<0>>, <<1000>>, <<2>> >>
\* 0.000, 1.000, 0.003: the first centroid moves by 0.0015
OverEpsVectors == << <<0>>, <<1000>>, <<3>> >>

SpecialInputs ==
    { Readable(LinesOf(DummyVectors)),
      Readable(LinesOf(SlowVectors)),
      Readable(LinesOf(HugeVectors)),
      Thousandths(EpsVectors),
      Thousandths(OverEpsVectors),
      \* blank lines between and after the rows
      Readable(<< LineOf(<<1, 2>>), <<>>, LineOf(<<5, 6>>), LineOf(<<9, 9>>), <<>> >>),
      \* a malformed token
      Readable(<< LineOf(<<1, 2>>), <<Num(3), BadToken>>, LineOf(<<5, 6>>) >>),
      \* rows of differing lengths
      Readable(<< LineOf(<<1, 2>>), LineOf(<<3>>), LineOf(<<5, 6>>), LineOf(<<7, 8>>) >>),
      \* no usable row
      Readable(<< <<>> >>),
      Unreadable }

\* every input of 1..MaxN one-coordinate vectors over 0..MaxCoord
LineInputs ==
    UNION { { Readable(LinesOf(vs)) : vs \in [1..n -> [1..1 -> 0..MaxCoord]] }
            : n \in 1..MaxN }

\* every input of one to three vectors on the corners of the unit square
PlaneInputs ==
    UNION { { Readable(LinesOf(vs)) : vs \in [1..n -> [1..2 -> 0..1]] }
            : n \in 1..3 }

GenInputs == LineInputs \cup PlaneInputs

\* the special inputs on standard input or in the named file
SpecialEnv ==
    { [stdin |-> s, file |-> Unreadable] : s \in SpecialInputs }
      \cup { [stdin |-> Readable(LinesOf(DummyVectors)), file |-> f] : f \in SpecialInputs }

\* ------------------------------------------------------------- arguments
KArgs ==
    { <<"-", "1">>, <<"0">>, <<"1">>, <<"2">>, <<"3">>, <<"4">>, <<"4", "2">>,
      <<"6", "5", "5", "3", "6">>, <<"6", "5", ",", "5", "3", "6">>,
      <<"2", ".", "5">>, <<"3", ".", "0">>, <<"b", "u", "g">> }

IterArgs ==
    { <<"-", "1">>, <<"0">>, <<"1">>, <<"2">>, <<"3">>, <<"4", "2">>,
      <<"9", "9", "9">>, <<"1", "0", "0", "0">>,
      <<"6", "5", "5", "3", "6">>, <<"6", "5", ",", "5", "3", "6">>,
      <<"2", ".", "5">>, <<"4", "2", ".", "0", "0", "0", "0">>, <<"b", "u", "g">> }

FileArgs == { <<"i", "n">>, <<>> }

\* every argument shape, on the special inputs
ArgvAll ==
    { <<>> }
      \cup { <<a>> : a \in KArgs }
      \cup { <<a, b>> : a \in KArgs, b \in IterArgs \cup FileArgs }
      \cup { <<a, b, <<"i", "n">> >> : a \in KArgs, b \in IterArgs }
      \cup { <<a, <<"3">>, <<>> >> : a \in KArgs }
      \cup { <<a, <<"3">>, <<"i", "n">>, <<"x">> >> : a \in KArgs }

\* the accepted argument shapes, on the generated inputs
ArgvRun ==
    LET ks == { <<"2">>, <<"3">> } IN
    { <<a>> : a \in ks }
      \cup { <<a, b, <<"i", "n">> >> : a \in ks, b \in { <<"2">>, <<"3">> } }

\* ----------------------------------------------------------------- state
VARIABLES
    argv,           \* sys.argv[1:]
    stdin,          \* what standard input holds
    file,           \* what the file named on the command line holds
    pc,             \* position in main / kmeans_clustering
    k, max_iter, file_arg,
    vectors, centroids, new_centroids, clusters,
    curr_iter, converged,
    assigns, updates,   \* number of calls of assign_clusters / update_centroids
    out,            \* lines printed on standard output
    err,            \* uncaught exceptions reported on standard error
    objs,           \* identities of the list objects: vector i is object i
    status          \* exit status, -1 while the program runs

vars == << argv, stdin, file, pc, k, max_iter, file_arg, vectors, centroids,
           new_centroids, clusters, curr_iter, converged, assigns, updates,
           out, err, objs, status >>

env == << argv, stdin, file >>

MsgLine(t) == [text |-> t, coords |-> <<>>]

\* ----------------------------------------------- parse_command_line_args
ParseFail(msg) == [ok |-> FALSE, k |-> 0, max_iter |-> 0, file_arg |-> <<>>, msg |-> msg]
ParseOk(kk, mi, fa) == [ok |-> TRUE, k |-> kk, max_iter |-> mi, file_arg |-> fa, msg |-> ""]

KTooSmall(kk) == kk <= MIN_K

\* mutation: max_iter = MAX_ITER slips through
IterOutOfRange_inclusiveMax(mi) == mi <= MIN_ITER \/ mi > MAX_ITER

IterOutOfRange(mi) == mi <= MIN_ITER \/ mi >= MAX_ITER

\* mutation: the argument count is checked before k
parse_command_line_args_countFirst(args) ==
    IF Len(args) = 0 \/ Len(args) > 3 THEN ParseFail(GENERIC_MSG)
    ELSE IF ~IsIntLiteral(args[1]) THEN ParseFail(GENERIC_MSG)
    ELSE IF KTooSmall(IntValue(args[1])) THEN ParseFail(INVALID_K_MSG)
    ELSE IF Len(args) = 1 THEN ParseOk(IntValue(args[1]), DEFAULT_ITER, <<>>)
    ELSE IF Len(args) = 2 THEN ParseOk(IntValue(args[1]), DEFAULT_ITER, args[2])
    ELSE IF ~IsIntLiteral(args[2]) THEN ParseFail(GENERIC_MSG)
    ELSE IF IterOutOfRange(IntValue(args[2])) THEN ParseFail(INVALID_ITER_MSG)
    ELSE ParseOk(IntValue(args[1]), IntValue(args[2]), args[3])

\* file_arg = None is the empty sequence: None and "" are both false in
\* `if file_arg`, the only place that looks at it.
parse_command_line_args(args) ==
    IF Len(args) = 0 THEN ParseFail(GENERIC_MSG)
    ELSE IF ~IsIntLiteral(args[1]) THEN ParseFail(GENERIC_MSG)
    ELSE IF KTooSmall(IntValue(args[1])) THEN ParseFail(INVALID_K_MSG)
    ELSE IF Len(args) = 1 THEN ParseOk(IntValue(args[1]), DEFAULT_ITER, <<>>)
    ELSE IF Len(args) = 2 THEN ParseOk(IntValue(args[1]), DEFAULT_ITER, args[2])
    ELSE IF Len(args) = 3 THEN
        IF ~IsIntLiteral(args[2]) THEN ParseFail(GENERIC_MSG)
        ELSE IF IterOutOfRange(IntValue(args[2])) THEN ParseFail(INVALID_ITER_MSG)
        ELSE ParseOk(IntValue(args[1]), IntValue(args[2]), args[3])
    ELSE ParseFail(GENERIC_MSG)

\* ---------------------------------------------------------- read_vectors
\* the source read_vectors reads: the named file, or standard input
Source(fa) == IF fa # <<>> THEN file ELSE stdin

LineIsBad(line) == \E i \in 1..Len(line) : ~line[i].num

RECURSIVE ParseLines(_)
\* the vectors of the non-blank lines, in order
ParseLines(lines) ==
    IF lines = <<>> THEN <<>>
    ELSE IF Head(lines) = <<>> THEN ParseLines(Tail(lines))
    ELSE << [i \in 1..Len(Head(lines)) |-> Head(lines)[i].val] >> \o ParseLines(Tail(lines))

read_vectors(fa) ==
    LET src == Source(fa) IN
    IF ~src.readable THEN [ok |-> FALSE, vectors |-> <<>>]
    ELSE IF \E i \in 1..Len(src.lines) : LineIsBad(src.lines[i])
         THEN [ok |-> FALSE, vectors |-> <<>>]
    ELSE IF ParseLines(src.lines) = <<>> THEN [ok |-> FALSE, vectors |-> <<>>]
    ELSE [ok |-> TRUE, vectors |-> ParseLines(src.lines)]

\* -------------------------------------------- validate_vector_dimensions
validate_vector_dimensions(vs) ==
    /\ vs # <<>>
    /\ \A i \in 1..Len(vs) : Len(vs[i]) = Len(vs[1])

\* ------------------------------------------------------- list identities
\* objs.centroids / objs.new_centroids: the objects the two lists hold;
\* objs.allocated: how many list objects exist; objs.written: the objects
\* assigned to element-wise after their creation
NoObjects == [centroids |-> <<>>, new_centroids |-> <<>>, allocated |-> 0, written |-> {}]

\* n fresh objects after the first `allocated` ones
Fresh(allocated, n) == [i \in 1..n |-> allocated + i]

\* mutation: `vectors[i]` without the slice, the centroids are the vectors
centroid_objects_aliased(allocated, kk) == [i \in 1..kk |-> i]

\* `vectors[i][:] for i in range(k)`: every slice is a new list
centroid_objects(allocated, kk) == Fresh(allocated, kk)

\* update_centroids: `[0] * dim` (written by += and /=) for a bucket with
\* vectors, `centroids[j][:]` for an empty one; a new list in both cases
updated_objects(o, cl) ==
    [o EXCEPT !.new_centroids = Fresh(o.allocated, Len(cl)),
              !.allocated = o.allocated + Len(cl),
              !.written = o.written
                  \cup { o.allocated + j : j \in { i \in 1..Len(cl) : cl[i] # <<>> } }]

\* -------------------------------------------------- initialize_centroids
Scale == Fact(Len(vectors))

\* input units per 1, and centroid units per 1
Unit == Source(file_arg).den
Denominator == Scale * Unit

\* a vector in the units centroids are held in
Scaled(v) == [i \in 1..Len(v) |-> v[i] * Scale]

\* mutation: k = N slips through
KTooLarge_offByOne(kk, vs) == kk > Len(vs)

KTooLarge(kk, vs) == kk >= Len(vs)

initialize_centroids(vs, kk) == [i \in 1..kk |-> Scaled(vs[i])]

\* ---------------------------------------------------- euclidean_distance
RECURSIVE SumSq(_, _, _)
SumSq(a, b, i) ==
    IF i > Len(a) THEN 0
    ELSE (a[i] - b[i]) * (a[i] - b[i]) + SumSq(a, b, i + 1)

\* the square of the distance, both arguments in units of 1/Scale
euclidean_distance_sq(point, centroid) == SumSq(point, centroid, 1)

Abs(x) == IF x < 0 THEN 0 - x ELSE x

\* `(point[i] - centroid[i]) ** 2` raises OverflowError for some i
Overflows(point, centroid) ==
    \E i \in 1..Len(point) : Abs(point[i] - centroid[i]) > SqrtFloatMax * Denominator

\* ------------------------------------------------------- assign_clusters
MinOf(ds) == CHOOSE m \in { ds[i] : i \in 1..Len(ds) } : \A i \in 1..Len(ds) : m <= ds[i]

\* mutation: the last position of the minimum
IndexOfMin_last(ds) ==
    CHOOSE i \in 1..Len(ds) :
        /\ ds[i] = MinOf(ds)
        /\ \A j \in (i + 1)..Len(ds) : ds[j] # MinOf(ds)

\* distances.index(min(distances)): the first position of the minimum
IndexOfMin(ds) ==
    CHOOSE i \in 1..Len(ds) :
        /\ ds[i] = MinOf(ds)
        /\ \A j \in 1..(i - 1) : ds[j] # MinOf(ds)

closest_centroid(v, cs) ==
    IndexOfMin([j \in 1..Len(cs) |-> euclidean_distance_sq(Scaled(v), cs[j])])

RECURSIVE AssignFrom(_, _, _, _)
AssignFrom(vs, cs, i, cl) ==
    IF i > Len(vs) THEN cl
    ELSE AssignFrom(vs, cs, i + 1,
            [cl EXCEPT ![closest_centroid(vs[i], cs)] = Append(@, vs[i])])

assign_clusters(vs, cs) == AssignFrom(vs, cs, 1, [j \in 1..Len(cs) |-> <<>>])

\* some distance of the pass raises
AssignRaises(vs, cs) ==
    \E i \in 1..Len(vs) : \E j \in 1..Len(cs) : Overflows(Scaled(vs[i]), cs[j])

\* ------------------------------------------------------ update_centroids
RECURSIVE SumCoord(_, _, _)
SumCoord(points, i, p) ==
    IF p > Len(points) THEN 0 ELSE points[p][i] + SumCoord(points, i, p + 1)

\* the mean of a non-empty bucket, in units of 1/Scale
MeanOf(points) ==
    [i \in 1..Len(points[1]) |-> (SumCoord(points, i, 1) * Scale) \div Len(points)]

\* mutation: an empty bucket is reset to the origin
NewCentroid_reset(cl, cs, j) ==
    IF cl[j] # <<>> THEN MeanOf(cl[j]) ELSE [i \in 1..Len(cs[j]) |-> 0]

NewCentroid(cl, cs, j) == IF cl[j] # <<>> THEN MeanOf(cl[j]) ELSE cs[j]

\* mutation: a movement of exactly eps counts as moved
Moved_orEqual(old, new) ==
    euclidean_distance_sq(old, new)
        > (EPS_NUM * EPS_NUM * Denominator * Denominator - 1) \div (EPS_DEN * EPS_DEN)

\* euclidean_distance(old, new) > eps, on squares and in centroid units:
\* d2 / Denominator^2 > eps^2, and for an integer d2 that is
\* d2 > floor(Denominator^2 * eps^2)
Moved(old, new) ==
    euclidean_distance_sq(old, new)
        > (EPS_NUM * EPS_NUM * Denominator * Denominator) \div (EPS_DEN * EPS_DEN)

update_centroids(cl, cs) ==
    [ new_centroids |-> [j \in 1..Len(cs) |-> NewCentroid(cl, cs, j)],
      flag |-> \A j \in 1..Len(cs) :
                  cl[j] # <<>> => ~Moved(cs[j], MeanOf(cl[j])) ]

\* the distance between an old and a new centroid raises
UpdateRaises(cl, cs) ==
    \E j \in 1..Len(cs) : cl[j] # <<>> /\ Overflows(cs[j], MeanOf(cl[j]))

\* --------------------------------------------------------- print_results
\* f"{x:.4f}": the coordinate in ten-thousandths, rounded to nearest
\* (coordinates are non-negative and no mean lies half-way)
Format4(x) ==
    (x \div Denominator) * 10000
        + (2 * (x % Denominator) * 10000 + Denominator) \div (2 * Denominator)

CentroidLine(c) == [text |-> "", coords |-> [i \in 1..Len(c) |-> Format4(c[i])]]

\* mutation: nothing is printed
print_results_silent(cs) == <<>>

print_results(cs) == [j \in 1..Len(cs) |-> CentroidLine(cs[j])]

\* ------------------------------------------------------------------ Init
Init ==
    /\ \/ /\ argv \in ArgvAll
          /\ \E e \in SpecialEnv : stdin = e.stdin /\ file = e.file
       \/ /\ argv \in ArgvRun
          /\ stdin \in GenInputs
          /\ file = stdin
    /\ pc = "parse"
    /\ k = 0 /\ max_iter = 0 /\ file_arg = <<>>
    /\ vectors = <<>> /\ centroids = <<>> /\ new_centroids = <<>> /\ clusters = <<>>
    /\ curr_iter = 0 /\ converged = FALSE
    /\ assigns = 0 /\ updates = 0
    /\ out = <<>>
    /\ err = <<>>
    /\ objs = NoObjects
    /\ status = -1

\* main returns 1 after a callee printed msg
Fail(msg) ==
    /\ out' = Append(out, MsgLine(msg))
    /\ status' = 1
    /\ pc' = "done"
    /\ UNCHANGED err

\* an exception nothing catches: the interpreter reports it on standard
\* error and exits with status 1
Raise(exc) ==
    /\ err' = Append(err, exc)
    /\ status' = 1
    /\ pc' = "done"
    /\ UNCHANGED out

\* main, lines 254-256
ParseArgs ==
    /\ pc = "parse"
    /\ LET r == parse_command_line_args(argv) IN
        IF r.ok
        THEN /\ k' = r.k /\ max_iter' = r.max_iter /\ file_arg' = r.file_arg
             /\ pc' = "read"
             /\ UNCHANGED << out, err, status >>
        ELSE /\ Fail(r.msg)
             /\ UNCHANGED << k, max_iter, file_arg >>
    /\ UNCHANGED << env, vectors, centroids, new_centroids, clusters,
                    curr_iter, converged, assigns, updates, objs >>

\* main, lines 259-261
ReadVectors ==
    /\ pc = "read"
    /\ LET r == read_vectors(file_arg) IN
        IF r.ok
        THEN /\ vectors' = r.vectors
             /\ objs' = [objs EXCEPT !.allocated = Len(r.vectors)]
             /\ pc' = "validate"
             /\ UNCHANGED << out, err, status >>
        ELSE /\ Fail(GENERIC_MSG)
             /\ UNCHANGED << vectors, objs >>
    /\ UNCHANGED << env, k, max_iter, file_arg, centroids, new_centroids,
                    clusters, curr_iter, converged, assigns, updates >>

\* kmeans_clustering, lines 227-228
Validate ==
    /\ pc = "validate"
    /\ IF validate_vector_dimensions(vectors)
       THEN pc' = "init" /\ UNCHANGED << out, err, status >>
       ELSE Fail(GENERIC_MSG)
    /\ UNCHANGED << env, k, max_iter, file_arg, vectors, centroids, objs,
                    new_centroids, clusters, curr_iter, converged, assigns, updates >>

\* kmeans_clustering, lines 231-236
Initialize ==
    /\ pc = "init"
    /\ IF KTooLarge(k, vectors)
       THEN /\ Fail(INVALID_K_MSG)
            /\ UNCHANGED << centroids, curr_iter, converged, objs >>
       ELSE /\ centroids' = initialize_centroids(vectors, k)
            /\ objs' = [objs EXCEPT !.centroids = centroid_objects(objs.allocated, k),
                                     !.allocated = objs.allocated + k]
            /\ curr_iter' = 0
            /\ converged' = FALSE
            /\ pc' = "loop"
            /\ UNCHANGED << out, err, status >>
    /\ UNCHANGED << env, k, max_iter, file_arg, vectors, new_centroids,
                    clusters, assigns, updates >>

\* mutation: the loop runs one iteration too many
LoopCondition_late == ~converged /\ curr_iter <= max_iter

LoopCondition == ~converged /\ curr_iter < max_iter

\* lines 239-240: the loop test, and the increment when it passes
LoopTest ==
    /\ pc = "loop"
    /\ IF LoopCondition
       THEN curr_iter' = curr_iter + 1 /\ pc' = "assign"
       ELSE pc' = "print" /\ UNCHANGED curr_iter
    /\ UNCHANGED << env, k, max_iter, file_arg, vectors, centroids, new_centroids,
                    clusters, converged, assigns, updates, out, err, objs, status >>

\* line 242
Assign ==
    /\ pc = "assign"
    /\ IF AssignRaises(vectors, centroids)
       THEN /\ Raise("OverflowError")
            /\ UNCHANGED << clusters, assigns >>
       ELSE /\ clusters' = assign_clusters(vectors, centroids)
            /\ assigns' = assigns + 1
            /\ pc' = "update"
            /\ UNCHANGED << out, err, status >>
    /\ UNCHANGED << env, k, max_iter, file_arg, vectors, centroids,
                    new_centroids, curr_iter, converged, updates, objs >>

\* line 244
Update ==
    /\ pc = "update"
    /\ IF UpdateRaises(clusters, centroids)
       THEN /\ Raise("OverflowError")
            /\ UNCHANGED << new_centroids, converged, updates, objs >>
       ELSE /\ LET r == update_centroids(clusters, centroids) IN
                /\ new_centroids' = r.new_centroids
                /\ converged' = r.flag
            /\ objs' = updated_objects(objs, clusters)
            /\ updates' = updates + 1
            /\ pc' = "commit"
            /\ UNCHANGED << out, err, status >>
    /\ UNCHANGED << env, k, max_iter, file_arg, vectors, centroids,
                    clusters, curr_iter, assigns >>

\* line 245
Commit ==
    /\ pc = "commit"
    /\ centroids' = new_centroids
    /\ objs' = [objs EXCEPT !.centroids = objs.new_centroids]
    /\ pc' = "loop"
    /\ UNCHANGED << env, k, max_iter, file_arg, vectors, new_centroids,
                    clusters, curr_iter, converged, assigns, updates, out, err, status >>

\* line 248
PrintResults ==
    /\ pc = "print"
    /\ out' = out \o print_results(centroids)
    /\ pc' = "return"
    /\ UNCHANGED << env, k, max_iter, file_arg, vectors, centroids,
                    new_centroids, clusters, curr_iter, converged, assigns, updates,
                    err, objs, status >>

\* line 249 and main, lines 265-268
Return0 ==
    /\ pc = "return"
    /\ status' = 0
    /\ pc' = "done"
    /\ UNCHANGED << env, k, max_iter, file_arg, vectors, centroids,
                    new_centroids, clusters, curr_iter, converged, assigns, updates,
                    out, err, objs >>

Next ==
    \/ ParseArgs
    \/ ReadVectors
    \/ Validate
    \/ Initialize
    \/ LoopTest
    \/ Assign
    \/ Update
    \/ Commit
    \/ PrintResults
    \/ Return0

Spec == Init /\ [][Next]_vars

\* the interpreter runs the program to its end
FairSpec == Spec /\ WF_vars(Next)

TypeOK ==
    /\ pc \in {"parse", "read", "validate", "init", "loop", "assign", "update",
               "commit", "print", "return", "done"}
    /\ status \in {-1, 0, 1}
    /\ curr_iter \in Nat
    /\ converged \in BOOLEAN

\* ------------------------------------------------- vocabulary of the claims
\* the file argument of each argument shape, <<>> when there is none
FileArgOf(args) ==
    IF Len(args) = 2 THEN args[2] ELSE IF Len(args) = 3 THEN args[3] ELSE <<>>

\* the content the run reads its vectors from
UsedInput == IF FileArgOf(argv) # <<>> THEN file ELSE stdin

Rows(c) == SelectSeq(c.lines, LAMBDA l : l # <<>>)

\* N equal-dimension vectors, N >= 1
ValidContent(c) ==
    /\ c.readable
    /\ Rows(c) # <<>>
    /\ \A r \in 1..Len(Rows(c)) :
          /\ Len(Rows(c)[r]) = Len(Rows(c)[1])
          /\ \A i \in 1..Len(Rows(c)[r]) : Rows(c)[r][i].num

NOf(c) == Len(Rows(c))

WholeInRange(s, lo, hi) == IsIntLiteral(s) /\ lo < IntValue(s) /\ IntValue(s) < hi

\* the max_iter argument of the three-argument form is valid
IterArgValid == Len(argv) = 3 => WholeInRange(argv[2], MIN_ITER, MAX_ITER)

OnlyMessage(msg) == out = << MsgLine(msg) >> /\ status = 1

\* the run passed every validation: no message, the centroids initialised
Accepted == centroids # <<>> /\ \A i \in 1..Len(out) : out[i].coords # <<>>

C3_TesterInvocation ==
    (/\ pc = "done" /\ Len(argv) \in {1, 2}
     /\ ValidContent(stdin) /\ WholeInRange(argv[1], 1, NOf(stdin))
     /\ Len(argv) = 2 => WholeInRange(argv[2], 1, 1000)) =>
        /\ status = 0
        /\ vectors = ParseLines(stdin.lines)
        /\ max_iter = IF Len(argv) = 2 THEN IntValue(argv[2]) ELSE 400
        /\ Len(out) = IntValue(argv[1])

\* C4: k = "3.0" with max_iter = "42.0000" on the tester's 4-vector input
\* succeeds as k = 3, max_iter = 42 with status 0; k = "2.5" is rejected.
C4_FloatLookingWholeNumbers ==
    (pc = "done" /\ stdin = Readable(LinesOf(DummyVectors)) /\ Len(argv) = 2) =>
        /\ (argv = << <<"3", ".", "0">>, <<"4", "2", ".", "0", "0", "0", "0">> >>)
              => (status = 0 /\ k = 3 /\ max_iter = 42)
        /\ argv[1] = <<"2", ".", "5">> => status = 1

\* the values of the tester's INVALID_PARAMETERS_VALUES written in ASCII
InvalidParameterValues ==
    { <<"-", "1">>, <<"0">>, <<"b", "u", "g">>, <<"6", "5", ",", "5", "3", "6">>,
      <<"6", "5", "5", "3", "6">>, <<"2", ".", "5">> }

\* C5: on the tester's 4-vector input on standard input, every invalid value
\* (and 42) given as k ends with status 1 and exactly the line "Incorrect
\* number of clusters!", and every invalid value given as max_iter after
\* k = 3 ends with status 1 and exactly "Incorrect maximum iteration!".
C5_TesterMessages ==
    (pc = "done" /\ stdin = Readable(LinesOf(DummyVectors))) =>
        /\ (Len(argv) = 1 /\ argv[1] \in InvalidParameterValues \cup { <<"4", "2">> })
              => OnlyMessage("Incorrect number of clusters!")
        /\ (Len(argv) = 2 /\ argv[1] = <<"3">> /\ argv[2] \in InvalidParameterValues)
              => OnlyMessage("Incorrect maximum iteration!")

Messages == { GENERIC_MSG, INVALID_K_MSG, INVALID_ITER_MSG }

\* arguments and input pass every validation
Validated ==
    /\ Len(argv) \in 1..3
    /\ IsIntLiteral(argv[1])
    /\ IterArgValid
    /\ ValidContent(UsedInput)
    /\ 1 < IntValue(argv[1]) /\ IntValue(argv[1]) < NOf(UsedInput)

\* C6: a run that fails a validation (usage, k, max_iter, unreadable,
\* malformed or empty input, dimension mismatch) ends with status 1 after
\* exactly one message line and no centroid line; a run that ends with
\* status 0 has printed its centroid lines before and no message line.
C6_OneMessageOrCentroids ==
    /\ (pc = "done" /\ ~Validated) =>
          /\ status = 1
          /\ Len(out) = 1
          /\ out[1].text \in Messages
          /\ out[1].coords = <<>>
          /\ err = <<>>
    /\ status = 0 =>
          /\ out # <<>>
          /\ \A i \in 1..Len(out) : out[i].text = "" /\ out[i].coords # <<>>
          /\ err = <<>>

\* a run that fails on rows of differing lengths
C6_Witness ==
    /\ status = 1
    /\ vectors # <<>>
    /\ \E i \in 1..Len(vectors) : Len(vectors[i]) # Len(vectors[1])
    /\ out = << MsgLine(GENERIC_MSG) >>

\* what both terminal states print: k centroid lines in cluster-index order,
\* d coordinates each, from the centroids of the last executed iteration
OutputContract ==
    /\ status = 0
    /\ curr_iter >= 1
    /\ converged \/ curr_iter = max_iter
    /\ Len(out) = IntValue(argv[1])
    /\ Len(new_centroids) = Len(out)
    /\ \A j \in 1..Len(out) :
          /\ Len(out[j].coords) = Len(Rows(UsedInput)[1])
          /\ out[j] = CentroidLine(new_centroids[j])

\* C7: every run on validated input eventually terminates, converged or at
\* the iteration limit, and in both cases with status 0 and the same output
\* contract.
C7_TerminatesWithCentroids ==
    [](Validated => <>(pc = "done" /\ OutputContract))

C8_Counters ==
    /\ 0 <= curr_iter /\ curr_iter <= max_iter
    /\ updates <= max_iter
    /\ pc = "assign" => assigns = curr_iter - 1 /\ updates = curr_iter - 1
    /\ pc = "update" => assigns = curr_iter /\ updates = curr_iter - 1
    /\ pc \in {"loop", "commit", "print", "return"}
          => assigns = curr_iter /\ updates = curr_iter

\* C8: the iteration counter stays within 0..max_iter and grows by one per
\* iteration; each iteration makes one assignment pass, then one centroid
\* update with its convergence evaluation, so the number of evaluations
\* equals the counter and never exceeds max_iter.
C8_IterationCounter ==
    /\ []C8_Counters
    /\ [][/\ curr_iter' = curr_iter \/ (curr_iter' = curr_iter + 1 /\ pc = "loop")
          /\ assigns' = assigns \/ (assigns' = assigns + 1 /\ pc = "assign")
          /\ updates' = updates \/ (updates' = updates + 1 /\ pc = "update")]_vars

\* the last permitted iteration has run and did not converge
C8_Witness ==
    pc = "commit" /\ curr_iter = max_iter /\ updates = max_iter /\ ~converged

RECURSIVE TotalOf(_, _)
\* the sum of coordinate i over the points, last point first
TotalOf(points, i) ==
    IF points = <<>> THEN 0
    ELSE TotalOf(SubSeq(points, 1, Len(points) - 1), i) + points[Len(points)][i]

\* C9: after every update, for each cluster j the new centroid is the
\* coordinate-wise mean of bucket j if the bucket is non-empty and the
\* previous centroid j if it is empty; there are exactly k new centroids.
C9_MeanOrPrevious ==
    pc = "commit" =>
        /\ Len(new_centroids) = k
        /\ \A j \in 1..k :
              IF clusters[j] # <<>>
              THEN /\ Len(new_centroids[j]) = Len(vectors[1])
                   /\ \A i \in 1..Len(vectors[1]) :
                         new_centroids[j][i] * Len(clusters[j])
                            = Scale * TotalOf(clusters[j], i)
              ELSE new_centroids[j] = centroids[j]

\* two of the first k vectors are identical, a bucket is empty and another
\* bucket holds several vectors whose mean differs from each of them
C9_Witness ==
    /\ pc = "commit"
    /\ \E a, b \in 1..k : a < b /\ vectors[a] = vectors[b]
    /\ \E j \in 1..k : clusters[j] = <<>> /\ new_centroids[j] = centroids[j]
    /\ \E j \in 1..k :
          /\ Len(clusters[j]) >= 2
          /\ \A p \in 1..Len(clusters[j]) : Scaled(clusters[j][p]) # new_centroids[j]

\* the cluster the claim names for v: at minimum distance, lowest index first
Nearest(v) ==
    CHOOSE j \in 1..Len(centroids) :
        /\ \A j2 \in 1..Len(centroids) :
              euclidean_distance_sq(Scaled(v), centroids[j])
                 <= euclidean_distance_sq(Scaled(v), centroids[j2])
        /\ \A j2 \in 1..(j - 1) :
              euclidean_distance_sq(Scaled(v), centroids[j])
                 < euclidean_distance_sq(Scaled(v), centroids[j2])

RECURSIVE TotalLen(_)
TotalLen(cl) == IF cl = <<>> THEN 0 ELSE Len(Head(cl)) + TotalLen(Tail(cl))

\* C10: an assignment pass yields exactly k buckets that partition the input:
\* bucket j holds, in input order, exactly the vectors whose nearest centroid
\* is j, the lowest index winning among equidistant centroids.
C10_AssignmentPartition ==
    pc = "update" =>
        /\ Len(clusters) = k
        /\ TotalLen(clusters) = Len(vectors)
        /\ \A j \in 1..k :
              clusters[j] = SelectSeq(vectors, LAMBDA v : Nearest(v) = j)

\* a vector equidistant from two different centroids went to the lower index
C10_Witness ==
    /\ pc = "update"
    /\ \E i \in 1..Len(vectors) : \E a, b \in 1..k :
          /\ a < b
          /\ centroids[a] # centroids[b]
          /\ Nearest(vectors[i]) = a
          /\ euclidean_distance_sq(Scaled(vectors[i]), centroids[a])
                = euclidean_distance_sq(Scaled(vectors[i]), centroids[b])
          /\ \E p \in 1..Len(clusters[a]) : clusters[a][p] = vectors[i]

\* the objects of the input vectors
VectorObjects == 1..Len(vectors)

C11_Frame ==
    \* the first k vectors, in input order, as new lists
    /\ (pc = "loop" /\ curr_iter = 0) =>
          /\ Len(centroids) = k
          /\ \A i \in 1..k : \A c \in 1..Len(vectors[i]) :
                centroids[i][c] = vectors[i][c] * Scale
          /\ Len(objs.centroids) = k
    \* no centroid list is a vector's list, and no vector's list is written
    /\ \A i \in 1..Len(objs.centroids) : objs.centroids[i] \notin VectorObjects
    /\ \A i \in 1..Len(objs.new_centroids) : objs.new_centroids[i] \notin VectorObjects
    /\ objs.written \cap VectorObjects = {}
    \* the vectors are those of the input, in order
    /\ vectors # <<>> => vectors = ParseLines(UsedInput.lines)

\* C11: initial centroid i is a copy of input vector i for every i < k
\* (duplicates kept), and from initialisation to the output no step changes
\* the coordinates, the order or the number of the input vectors.
C11_FirstKCopiedVectorsUntouched ==
    /\ []C11_Frame
    /\ [][vectors # <<>> => vectors' = vectors]_vars

\* a finished run of several iterations whose first two vectors are equal
C11_Witness ==
    /\ pc = "done" /\ status = 0 /\ curr_iter >= 2
    /\ vectors[1] = vectors[2]
    /\ objs.written # {}
    /\ vectors = ParseLines(UsedInput.lines)

RECURSIVE GCD(_, _)
GCD(a, b) == IF b = 0 THEN a ELSE GCD(b, a % b)

\* the movement of cluster j in the last update against epsilon, as the
\* fractions sqrt(d2) / Denominator and EPS_NUM / EPS_DEN cross-multiplied
\* after removing the common factor of the two denominators
MovementSq(j) == euclidean_distance_sq(centroids[j], new_centroids[j])
EpsSide == (EPS_NUM * (Denominator \div GCD(Denominator, EPS_DEN)))
              * (EPS_NUM * (Denominator \div GCD(Denominator, EPS_DEN)))
MoveSide(j) == MovementSq(j) * (EPS_DEN \div GCD(Denominator, EPS_DEN))
                             * (EPS_DEN \div GCD(Denominator, EPS_DEN))
MovedMoreThanEps(j) == MoveSide(j) > EpsSide
MovedExactlyEps(j) == MoveSide(j) = EpsSide

C12_Flag ==
    \* the flag of an update: no cluster moved by more than epsilon
    /\ pc = "commit" =>
          (converged <=> \A j \in 1..k : ~MovedMoreThanEps(j))
    \* an iteration after the first runs only if the one before did not
    \* converge, and on the centroids that one produced
    /\ pc \in {"assign", "update"} => ~converged
    /\ (pc \in {"assign", "update"} /\ curr_iter >= 2) => centroids = new_centroids

\* C12: the loop stops after iteration i iff i is the first iteration in
\* which no centroid moved by more than epsilon (strictly: a movement equal
\* to epsilon, or an empty cluster, is no movement) or i = max_iter; if some
\* centroid moved by more and i < max_iter the next iteration starts, on the
\* new centroids.
C12_StopsAtFirstConvergenceOrLimit ==
    /\ []C12_Flag
    /\ [][(pc = "loop" /\ curr_iter >= 1) =>
            /\ centroids = new_centroids
            /\ IF converged \/ curr_iter = max_iter
               THEN pc' = "print" /\ curr_iter' = curr_iter /\ centroids' = centroids
               ELSE pc' = "assign" /\ curr_iter' = curr_iter + 1
                    /\ centroids' = new_centroids]_vars

\* a centroid moved by exactly epsilon and the update reported convergence
C12_Witness ==
    /\ pc = "commit" /\ converged /\ curr_iter < max_iter
    /\ \E j \in 1..k : MovedExactlyEps(j) /\ new_centroids[j] # centroids[j]

\* the read fails, a row does not parse, or no row is left
InputFailure(c) ==
    \/ ~c.readable
    \/ \E r \in 1..Len(c.lines) : \E i \in 1..Len(c.lines[r]) : ~c.lines[r][i].num
    \/ Rows(c) = <<>>

DimensionMismatch(c) == \E r \in 1..Len(Rows(c)) : Len(Rows(c)[r]) # Len(Rows(c)[1])

\* the failures that follow the argument count and k, in their order
LaterFailure ==
    IF Len(argv) = 3 /\ ~IsIntLiteral(argv[2]) THEN GENERIC_MSG
    ELSE IF Len(argv) = 3 /\ ~WholeInRange(argv[2], 1, 1000) THEN INVALID_ITER_MSG
    ELSE IF InputFailure(UsedInput) THEN GENERIC_MSG
    ELSE IF DimensionMismatch(UsedInput) THEN GENERIC_MSG
    ELSE IF IntValue(argv[1]) >= NOf(UsedInput) THEN INVALID_K_MSG
    ELSE ""

\* the first failure in the order: argument count / k not a number /
\* k <= 1 / max_iter / input / dimensions / k >= N; "" when there is none
FirstFailureCountFirst ==
    IF Len(argv) = 0 \/ Len(argv) > 3 THEN GENERIC_MSG
    ELSE IF ~IsIntLiteral(argv[1]) THEN GENERIC_MSG
    ELSE IF IntValue(argv[1]) <= 1 THEN INVALID_K_MSG
    ELSE LaterFailure

\* the first failure in the order: no argument / k not a number / k <= 1 /
\* more than three arguments / max_iter / input / dimensions / k >= N
FirstFailureKBeforeCount ==
    IF Len(argv) = 0 THEN GENERIC_MSG
    ELSE IF ~IsIntLiteral(argv[1]) THEN GENERIC_MSG
    ELSE IF IntValue(argv[1]) <= 1 THEN INVALID_K_MSG
    ELSE IF Len(argv) > 3 THEN GENERIC_MSG
    ELSE LaterFailure

\* a failure of the arguments: one that does not depend on the input
ArgumentFailure ==
    \/ Len(argv) = 0 \/ Len(argv) > 3
    \/ ~IsIntLiteral(argv[1]) \/ IntValue(argv[1]) <= 1
    \/ Len(argv) = 3 /\ ~WholeInRange(argv[2], 1, 1000)

\* the finished run reported msg and nothing else; argument failures are
\* reported without the input having been read
ReportsOnly(msg) ==
    /\ IF msg # "" THEN OnlyMessage(msg) /\ err = <<>>
       ELSE \A i \in 1..Len(out) : out[i].coords # <<>>
    /\ ArgumentFailure => vectors = <<>> /\ objs.allocated = 0

\* C13 as stated: rows of differing lengths get the generic message, and of
\* several failures only the first is reported in the order argument count /
\* k not a number / k <= 1 / max_iter (all before the input is read) / read,
\* parse or empty input / dimension mismatch / k >= N.
C13_FirstFailureCountFirst ==
    pc = "done" => ReportsOnly(FirstFailureCountFirst)

\* C13 amended: the same, in the order no argument / k not a number /
\* k <= 1 / more than three arguments / max_iter / read, parse or empty
\* input / dimension mismatch / k >= N.
C13_FirstFailureKBeforeCount ==
    pc = "done" => ReportsOnly(FirstFailureKBeforeCount)

\* rows of differing lengths together with k >= N: the generic message
C13_Witness ==
    /\ pc = "done"
    /\ ~ArgumentFailure /\ ~InputFailure(UsedInput)
    /\ DimensionMismatch(UsedInput)
    /\ IntValue(argv[1]) >= NOf(UsedInput)
    /\ OnlyMessage(GENERIC_MSG)

====
